---- MODULE Spec2Model ----
(***************************************************************************)
(* Model of app.py: the Shopify -> inFakt webhook service.                 *)
(*                                                                         *)
(* Money is held the way the code holds it: the JSON value of a price is   *)
(* a decimal number, written here in thousandths of a zloty (12300 is      *)
(* "12.30", 9995 is "9.995"), money_to_grosze quantizes it to whole        *)
(* grosze.  A VAT rate is a decimal fraction, written here in thousandths  *)
(* (230 is 0.23, 85 is 0.085).  Decimal arithmetic is exact on these       *)
(* magnitudes, so every quantize() is an integer round-half-up division.   *)
(***************************************************************************)
EXTENDS Integers, Sequences, FiniteSets, TLC

\* An order of the checked input space has at most this many lines in all
\* (line_items and shipping_lines together).
MaxLines == 2
\* Webhook deliveries followed in one run of the service.
MaxDeliveries == 2

VARIABLES
    SHOPIFY_WEBHOOK_SECRET,         \* TRUE iff the secret is a non-empty string
    INFAKT_API_KEY,                 \* TRUE iff the key is set
    INFAKT_ADJUSTMENT_TAX_SYMBOL,
    INFAKT_FLAT_RATE_TAX_SYMBOL,    \* "" is None
    ALLOW_TEST_ORDERS,
    route,                          \* the route of the delivery being handled
    hmac_header,                    \* its X-Shopify-Hmac-Sha256 header
    order,                          \* the order document
    pc,                             \* position of the running handler
    caller,                         \* who called prepare_services
    i,                              \* position of the running for-loop
    services,                       \* prepare_services: services
    calc_total_gross_grosze,        \* prepare_services: calc_total_gross_grosze
    call,                           \* the harness: which call is running
    results,                        \* the harness: what the calls returned
    payload,                        \* create_invoice: payload["invoice"]
    response,                       \* HTTP status answered to Shopify, 0 = none yet
    invoice_posts,                  \* POSTs to INVOICE_ENDPOINT in this delivery
    paid_posts,                     \* POSTs to .../paid.json in this delivery
    deliveries,                     \* deliveries received so far
    total_invoice_posts             \* POSTs to INVOICE_ENDPOINT so far

config == <<SHOPIFY_WEBHOOK_SECRET, INFAKT_API_KEY, INFAKT_ADJUSTMENT_TAX_SYMBOL,
            INFAKT_FLAT_RATE_TAX_SYMBOL, ALLOW_TEST_ORDERS>>
request == <<route, hmac_header, order>>
locals == <<i, services, calc_total_gross_grosze>>
harness == <<call, results>>
outcome == <<payload, response, invoice_posts, paid_posts, deliveries, total_invoice_posts>>
vars == <<config, request, pc, caller, locals, harness, outcome>>

----------------------------------------------------------------------------
\* JSON values of a field that should hold a number.
Absent == [kind |-> "absent", v |-> 0]     \* key missing
Num(n) == [kind |-> "num", v |-> n]        \* a number or a numeric string
Bad == [kind |-> "bad", v |-> 0]           \* null or a non-numeric string

\* dict.get(key, default)
Get(value, default) == IF value.kind = "absent" THEN default ELSE value

Abs(x) == IF x < 0 THEN -x ELSE x

\* Decimal(n/dd).quantize(Decimal("1"), rounding=ROUND_HALF_UP), dd > 0:
\* to the nearest integer, a tie away from zero.
RoundHalfUp(n, dd) ==
    IF n >= 0 THEN (2 * n + dd) \div (2 * dd)
              ELSE -((2 * (-n) + dd) \div (2 * dd))

\* d(value) raises decimal.InvalidOperation on anything that is no number.
dNeverRaises(value) == FALSE
dRaises(value) == value.kind # "num"

\* money_to_grosze(value), value in thousandths: quantize to 0.01, times 100.
money_to_grosze(value) == RoundHalfUp(value.v, 10)

\* pick_vat_rate(tax_lines, fallback): the first tax line's rate, in
\* thousandths; the fallback when there is none or d(rate) raises.
pick_vat_rate(rate, fallback) == IF rate.kind = "num" THEN rate.v ELSE fallback

\* rate_to_tax_symbol(rate): rate * 100 to the nearest integer.
rate_to_tax_symbol(rate) == RoundHalfUp(rate * 100, 1000)

\* The price without tax of a price with tax (lines 211, 238).
NetOfGross(price_grosze, rate) == RoundHalfUp(price_grosze * 1000, 1000 + rate)

\* The price with tax the code recomputes for a line (lines 215, 242).
GrossOfNet(net_grosze, qty, rate) == RoundHalfUp(net_grosze * qty * (1000 + rate), 1000)

\* A service entry; flat_rate_tax_symbol "" stands for the key left out.
Line(name, tax_symbol, quantity, unit_net_price) ==
    [name |-> name, tax_symbol |-> tax_symbol, quantity |-> quantity,
     unit_net_price |-> unit_net_price,
     flat_rate_tax_symbol |-> INFAKT_FLAT_RATE_TAX_SYMBOL]

INFAKT_ADJUSTMENT_NAME == "Wyrownanie (Shopify)"

----------------------------------------------------------------------------
\* prepare_services(order)

\* services: list[dict] = []
StaleServices == services
FreshServices == << >>

EnterPrepare ==
    /\ pc = "call"
    /\ services' = FreshServices
    /\ calc_total_gross_grosze' = 0
    /\ i' = 1
    /\ pc' = "items"
    /\ UNCHANGED <<config, request, caller, harness, outcome>>

\* int(item.get("quantity") or 0)
QtyOf(item) == IF item.quantity.kind = "num" THEN item.quantity.v ELSE 0

\* if qty <= 0: continue
SkipItemNegativeOnly(qty) == qty < 0
SkipItem(qty) == qty <= 0

\* item.get("title") or item.get("name") or "Produkt"
ItemName(item) ==
    IF item.title # "" THEN item.title
    ELSE IF item.name # "" THEN item.name ELSE "Produkt"

\* the net price of a unit: the price itself unless it includes the tax
UnitNetAsGiven(price_grosze, rate) == price_grosze
UnitNet(price_grosze, rate) ==
    IF order.taxes_included THEN NetOfGross(price_grosze, rate) ELSE price_grosze

ItemsDone ==
    /\ pc = "items"
    /\ i > Len(order.line_items)
    /\ pc' = "shipping"
    /\ i' = 1
    /\ UNCHANGED <<config, request, caller, services, calc_total_gross_grosze,
                   harness, outcome>>

ItemSkipped ==
    /\ pc = "items"
    /\ i <= Len(order.line_items)
    /\ SkipItem(QtyOf(order.line_items[i]))
    /\ i' = i + 1
    /\ UNCHANGED <<config, request, pc, caller, services, calc_total_gross_grosze,
                   harness, outcome>>

ItemRaises ==
    /\ pc = "items"
    /\ i <= Len(order.line_items)
    /\ ~SkipItem(QtyOf(order.line_items[i]))
    /\ dRaises(Get(order.line_items[i].price, Num(0)))
    /\ pc' = "raise"
    /\ UNCHANGED <<config, request, caller, locals, harness, outcome>>

ItemAppended ==
    /\ pc = "items"
    /\ i <= Len(order.line_items)
    /\ LET item == order.line_items[i]
           qty == QtyOf(item)
           price == Get(item.price, Num(0))
           unit_price_grosze == money_to_grosze(price)
           rate == pick_vat_rate(item.rate, 230)
           unit_net_grosze == UnitNet(unit_price_grosze, rate)
           gross_line == GrossOfNet(unit_net_grosze, qty, rate)
       IN  /\ ~SkipItem(qty)
           /\ ~dRaises(price)
           /\ calc_total_gross_grosze' = calc_total_gross_grosze + gross_line
           /\ services' = Append(services,
                  Line(ItemName(item), rate_to_tax_symbol(rate), qty, unit_net_grosze))
    /\ i' = i + 1
    /\ UNCHANGED <<config, request, pc, caller, harness, outcome>>

\* shipping.get("price", "0")
ShippingPriceDiscounted(shipping) ==
    IF shipping.discounted_price.kind # "absent"
    THEN shipping.discounted_price ELSE Get(shipping.price, Num(0))
ShippingPrice(shipping) == Get(shipping.price, Num(0))

\* if ship_price_grosze <= 0: continue
SkipShippingNegativeOnly(ship_price_grosze) == ship_price_grosze < 0
SkipShipping(ship_price_grosze) == ship_price_grosze <= 0

\* f"Wysylka - {shipping.get('title') or 'Dostawa'}"; the pair is the
\* prefix and what follows it.
ShippingName(shipping) ==
    <<"Wysylka - ", IF shipping.title # "" THEN shipping.title ELSE "Dostawa">>

ShippingDone ==
    /\ pc = "shipping"
    /\ i > Len(order.shipping_lines)
    /\ pc' = "reconcile"
    /\ UNCHANGED <<config, request, caller, locals, harness, outcome>>

ShippingRaises ==
    /\ pc = "shipping"
    /\ i <= Len(order.shipping_lines)
    /\ dRaises(ShippingPrice(order.shipping_lines[i]))
    /\ pc' = "raise"
    /\ UNCHANGED <<config, request, caller, locals, harness, outcome>>

ShippingSkipped ==
    /\ pc = "shipping"
    /\ i <= Len(order.shipping_lines)
    /\ ~dRaises(ShippingPrice(order.shipping_lines[i]))
    /\ SkipShipping(money_to_grosze(ShippingPrice(order.shipping_lines[i])))
    /\ i' = i + 1
    /\ UNCHANGED <<config, request, pc, caller, services, calc_total_gross_grosze,
                   harness, outcome>>

ShippingAppended ==
    /\ pc = "shipping"
    /\ i <= Len(order.shipping_lines)
    /\ LET shipping == order.shipping_lines[i]
           price == ShippingPrice(shipping)
           ship_price_grosze == money_to_grosze(price)
           ship_rate == pick_vat_rate(shipping.rate, 230)
           ship_net_grosze == UnitNet(ship_price_grosze, ship_rate)
           ship_gross == GrossOfNet(ship_net_grosze, 1, ship_rate)
       IN  /\ ~dRaises(price)
           /\ ~SkipShipping(ship_price_grosze)
           /\ calc_total_gross_grosze' = calc_total_gross_grosze + ship_gross
           /\ services' = Append(services,
                  Line(ShippingName(shipping), rate_to_tax_symbol(ship_rate), 1,
                       ship_net_grosze))
    /\ i' = i + 1
    /\ UNCHANGED <<config, request, pc, caller, harness, outcome>>

\* if abs(diff_grosze) >= 2
NeedsAdjustmentFromThree(diff_grosze) == Abs(diff_grosze) >= 3
NeedsAdjustment(diff_grosze) == Abs(diff_grosze) >= 2

\* adj_net: |diff| without tax at the adjustment rate, negative if calc > total
AdjNetFlipped(diff_grosze) ==
    LET adj_net == RoundHalfUp(Abs(diff_grosze) * 100, 100 + INFAKT_ADJUSTMENT_TAX_SYMBOL)
    IN  IF diff_grosze < 0 THEN -adj_net ELSE adj_net
AdjNet(diff_grosze) ==
    LET adj_net == RoundHalfUp(Abs(diff_grosze) * 100, 100 + INFAKT_ADJUSTMENT_TAX_SYMBOL)
    IN  IF diff_grosze > 0 THEN -adj_net ELSE adj_net

ReconcileRaises ==
    /\ pc = "reconcile"
    /\ dRaises(Get(order.total_price, Num(0)))
    /\ pc' = "raise"
    /\ UNCHANGED <<config, request, caller, locals, harness, outcome>>

ReconcileAdjusted ==
    /\ pc = "reconcile"
    /\ LET total == Get(order.total_price, Num(0))
           total_gross_grosze == money_to_grosze(total)
           diff_grosze == calc_total_gross_grosze - total_gross_grosze
       IN  /\ ~dRaises(total)
           /\ NeedsAdjustment(diff_grosze)
           /\ services' = Append(services,
                  Line(INFAKT_ADJUSTMENT_NAME, INFAKT_ADJUSTMENT_TAX_SYMBOL, 1,
                       AdjNet(diff_grosze)))
    /\ pc' = "return"
    /\ UNCHANGED <<config, request, caller, i, calc_total_gross_grosze, harness, outcome>>

ReconcileExact ==
    /\ pc = "reconcile"
    /\ LET total == Get(order.total_price, Num(0))
           total_gross_grosze == money_to_grosze(total)
           diff_grosze == calc_total_gross_grosze - total_gross_grosze
       IN  /\ ~dRaises(total)
           /\ ~NeedsAdjustment(diff_grosze)
    /\ pc' = "return"
    /\ UNCHANGED <<config, request, caller, locals, harness, outcome>>

PrepareServices ==
    \/ EnterPrepare
    \/ ItemsDone \/ ItemSkipped \/ ItemRaises \/ ItemAppended
    \/ ShippingDone \/ ShippingRaises \/ ShippingSkipped \/ ShippingAppended
    \/ ReconcileRaises \/ ReconcileAdjusted \/ ReconcileExact

----------------------------------------------------------------------------
\* Two calls of prepare_services on one order, one after the other.

Returned == [ok |-> TRUE, services |-> services]
Raised == [ok |-> FALSE, services |-> << >>]

CallAgain ==
    /\ caller = "harness"
    /\ pc \in {"return", "raise"}
    /\ call = 1
    /\ results' = Append(results, IF pc = "return" THEN Returned ELSE Raised)
    /\ call' = 2
    /\ pc' = "call"
    /\ UNCHANGED <<config, request, caller, locals, outcome>>

CallsDone ==
    /\ caller = "harness"
    /\ pc \in {"return", "raise"}
    /\ call = 2
    /\ results' = Append(results, IF pc = "return" THEN Returned ELSE Raised)
    /\ pc' = "done"
    /\ UNCHANGED <<config, request, caller, locals, call, outcome>>

----------------------------------------------------------------------------
\* The orders prepare_services is checked on.

Widget == [title |-> "Widget", name |-> "", quantity |-> Num(2),
           price |-> Num(12300), rate |-> Num(230)]
Gadget == [title |-> "", name |-> "Gadget", quantity |-> Num(1),
           price |-> Num(9995), rate |-> Absent]
Book == [title |-> "Book", name |-> "", quantity |-> Num(1),
         price |-> Num(10000), rate |-> Num(85)]
Removed == [title |-> "", name |-> "", quantity |-> Num(0),
            price |-> Num(5000), rate |-> Bad]
NoQuantity == [title |-> "Gift", name |-> "", quantity |-> Absent,
               price |-> Bad, rate |-> Num(230)]
Broken == [title |-> "Widget", name |-> "", quantity |-> Num(1),
           price |-> Bad, rate |-> Num(230)]

LineItems == {Widget, Gadget, Book, Removed, NoQuantity, Broken}

FreeShipping == [title |-> "Odbior", price |-> Num(0),
                 discounted_price |-> Absent, rate |-> Absent]
Courier == [title |-> "Kurier", price |-> Num(15000),
            discounted_price |-> Num(0), rate |-> Num(230)]
Parcel == [title |-> "", price |-> Num(9990),
           discounted_price |-> Num(5000), rate |-> Absent]
Crumb == [title |-> "Promo", price |-> Num(4),
          discounted_price |-> Absent, rate |-> Num(80)]
BrokenShipping == [title |-> "", price |-> Bad,
                   discounted_price |-> Absent, rate |-> Absent]

ShippingLines == {FreeShipping, Courier, Parcel, Crumb, BrokenShipping}

TotalPrices == {Absent, Bad, Num(10850), Num(24580), Num(24600), Num(24605),
                Num(24620), Num(24630)}

NoDate == [date |-> "", time |-> ""]

\* How many line items and how many shipping lines an order has.
LineSplits == {s \in (0..MaxLines) \X (0..MaxLines) : s[1] + s[2] <= MaxLines}

\* The fields prepare_services does not read are fixed.
BuildOrders ==
    UNION {{[id |-> "1001", created_at |-> NoDate, processed_at |-> NoDate,
             cancelled_at |-> "", financial_status |-> "paid", test |-> FALSE,
             taxes_included |-> t, line_items |-> li, shipping_lines |-> sl,
             total_price |-> tp] :
               t \in BOOLEAN, tp \in TotalPrices,
               li \in [1..s[1] -> LineItems], sl \in [1..s[2] -> ShippingLines]} :
           s \in LineSplits}

NoPayload == [external_id |-> "", sell_date |-> "", services |-> << >>]

InitBuild ==
    /\ SHOPIFY_WEBHOOK_SECRET = TRUE
    /\ INFAKT_API_KEY = TRUE
    /\ INFAKT_ADJUSTMENT_TAX_SYMBOL \in {23, 8}
    /\ INFAKT_FLAT_RATE_TAX_SYMBOL \in {"", "8.5"}
    /\ ALLOW_TEST_ORDERS = FALSE
    /\ route = "none"
    /\ hmac_header = ""
    /\ order \in BuildOrders
    /\ pc = "call"
    /\ caller = "harness"
    /\ i = 1
    /\ services = << >>
    /\ calc_total_gross_grosze = 0
    /\ call = 1
    /\ results = << >>
    /\ payload = NoPayload
    /\ response = 0
    /\ invoice_posts = 0
    /\ paid_posts = 0
    /\ deliveries = 0
    /\ total_invoice_posts = 0

NextBuild == PrepareServices \/ CallAgain \/ CallsDone

SpecBuild == InitBuild /\ [][NextBuild]_vars

----------------------------------------------------------------------------
\* The webhook routes.

\* verify_shopify_webhook(data, hmac_header): hmac_header "valid" is the
\* base64 HMAC-SHA256 of the body under the secret, anything else is not.
verify_shopify_webhook(header) == SHOPIFY_WEBHOOK_SECRET /\ header = "valid"

\* str.lower() on the statuses that occur
Lower(s) == CASE s = "PAID" -> "paid" [] s = "Voided" -> "voided" [] OTHER -> s

\* should_skip_order(order) -> (skip, reason)
should_skip_order_test_allowed(o) ==
    IF o.cancelled_at # "" THEN <<TRUE, "order_cancelled">>
    ELSE IF Lower(o.financial_status) \in {"voided"} THEN <<TRUE, "financial_voided">>
    ELSE <<FALSE, "ok">>
should_skip_order(o) ==
    IF o.cancelled_at # "" THEN <<TRUE, "order_cancelled">>
    ELSE IF Lower(o.financial_status) \in {"voided"} THEN <<TRUE, "financial_voided">>
    ELSE IF o.test /\ ~ALLOW_TEST_ORDERS THEN <<TRUE, "test_order">>
    ELSE <<FALSE, "ok">>

\* create_invoice: financial_status not in ("paid", "partially_paid")
NotPaid(o) == Lower(o.financial_status) \notin {"paid", "partially_paid"}

\* create_invoice: sell_date.  A timestamp is its date and its time, joined
\* by "T" when there is a time; without a "T" the date is today's.
SellDate(o) ==
    LET raw_date == IF o.processed_at # NoDate THEN o.processed_at ELSE o.created_at
    IN  IF raw_date.time # "" THEN raw_date.date ELSE "today"

\* request.get_json(silent=True) or {}
EmptyOrder ==
    [id |-> "", created_at |-> NoDate, processed_at |-> NoDate,
     cancelled_at |-> "", financial_status |-> "", test |-> FALSE,
     taxes_included |-> FALSE, line_items |-> << >>, shipping_lines |-> << >>,
     total_price |-> Absent]

Receive ==
    /\ pc \in {"idle", "responded"}
    /\ deliveries < MaxDeliveries
    /\ \E r \in {"orders_create", "orders_paid"}, h \in {"valid", "forged", ""} :
          /\ route' = r
          /\ hmac_header' = h
          /\ pc' = r
    /\ deliveries' = deliveries + 1
    /\ order' = EmptyOrder
    /\ payload' = NoPayload
    /\ response' = 0
    /\ invoice_posts' = 0
    /\ paid_posts' = 0
    /\ UNCHANGED <<config, caller, locals, harness, total_invoice_posts>>

orders_create ==
    /\ pc = "orders_create"
    /\ response' = IF verify_shopify_webhook(hmac_header) THEN 200 ELSE 401
    /\ pc' = "responded"
    /\ UNCHANGED <<config, request, caller, locals, harness, payload, invoice_posts,
                   paid_posts, deliveries, total_invoice_posts>>

\* orders_paid: abort(401)
OrdersPaidRejected ==
    /\ pc = "orders_paid"
    /\ ~verify_shopify_webhook(hmac_header)
    /\ response' = 401
    /\ pc' = "responded"
    /\ UNCHANGED <<config, request, caller, locals, harness, payload, invoice_posts,
                   paid_posts, deliveries, total_invoice_posts>>

Stamp == [date |-> "2024-05-01", time |-> "10:00:00Z"]
LaterStamp == [date |-> "2024-05-02", time |-> "08:30:00Z"]
DateOnly == [date |-> "2024-05-01", time |-> ""]

\* The order documents a delivery to /webhook/orders/paid may carry.
HookOrders ==
    {[id |-> who[1], created_at |-> who[2], processed_at |-> who[3],
      cancelled_at |-> c, financial_status |-> f, test |-> t,
      taxes_included |-> TRUE, line_items |-> what[1], shipping_lines |-> what[2],
      total_price |-> what[3]] :
        who \in {<<"1001", Stamp, NoDate>>, <<"", NoDate, NoDate>>,
                 <<"1002", DateOnly, LaterStamp>>},
        c \in {"", "2024-05-03T09:00:00Z"},
        f \in {"paid", "PAID", "partially_paid", "pending", "voided", ""},
        t \in BOOLEAN,
        what \in {<< <<Widget>>, << >>, Num(24600) >>,
                  << <<Widget>>, <<Courier>>, Num(24600) >>,
                  << <<Removed, Broken>>, << >>, Num(24600) >>,
                  << << >>, <<BrokenShipping>>, Num(24600) >>,
                  << <<Gadget>>, <<FreeShipping>>, Bad >>,
                  << << >>, << >>, Absent >>}}
    \cup {EmptyOrder}

\* orders_paid: order = request.get_json(silent=True) or {}; create_invoice(order)
OrdersPaidAccepted ==
    /\ pc = "orders_paid"
    /\ verify_shopify_webhook(hmac_header)
    /\ \E o \in HookOrders : order' = o
    /\ pc' = "create_invoice"
    /\ UNCHANGED <<config, route, hmac_header, caller, locals, harness, outcome>>

\* create_invoice: the two early returns
CreateInvoiceSkipped ==
    /\ pc = "create_invoice"
    /\ should_skip_order(order)[1] \/ NotPaid(order)
    /\ response' = 200
    /\ pc' = "responded"
    /\ UNCHANGED <<config, request, caller, locals, harness, payload, invoice_posts,
                   paid_posts, deliveries, total_invoice_posts>>

\* create_invoice: the payload is being built, "services": prepare_services(order)
CreateInvoiceBuilds ==
    /\ pc = "create_invoice"
    /\ ~should_skip_order(order)[1]
    /\ ~NotPaid(order)
    /\ pc' = "call"
    /\ UNCHANGED <<config, request, caller, locals, harness, outcome>>

\* prepare_services raised: nothing in create_invoice or orders_paid catches
\* it, the framework answers 500.
BuildFailed ==
    /\ caller = "create_invoice"
    /\ pc = "raise"
    /\ response' = 500
    /\ pc' = "responded"
    /\ UNCHANGED <<config, request, caller, locals, harness, payload, invoice_posts,
                   paid_posts, deliveries, total_invoice_posts>>

\* infakt_post raises RuntimeError when INFAKT_API_KEY is not set;
\* create_invoice logs it and returns None.
InvoiceNoApiKey ==
    /\ caller = "create_invoice"
    /\ pc = "return"
    /\ ~INFAKT_API_KEY
    /\ payload' = [external_id |-> order.id, sell_date |-> SellDate(order),
                   services |-> services]
    /\ response' = 200
    /\ pc' = "responded"
    /\ UNCHANGED <<config, request, caller, locals, harness, invoice_posts,
                   paid_posts, deliveries, total_invoice_posts>>

\* infakt_post(INVOICE_ENDPOINT, payload): one POST; what comes back is the
\* accounting API's choice.
InvoicePosted ==
    /\ caller = "create_invoice"
    /\ pc = "return"
    /\ INFAKT_API_KEY
    /\ payload' = [external_id |-> order.id, sell_date |-> SellDate(order),
                   services |-> services]
    /\ invoice_posts' = invoice_posts + 1
    /\ total_invoice_posts' = total_invoice_posts + 1
    /\ \E answer \in {"exception", "not_ok", "ok_uuid", "ok_no_uuid"} :
          IF answer = "ok_uuid"
          THEN pc' = "mark_invoice_paid" /\ response' = response
          ELSE pc' = "responded" /\ response' = 200
    /\ UNCHANGED <<config, request, caller, locals, harness, paid_posts, deliveries>>

\* mark_invoice_paid: the async endpoint first
MarkPaidAsync ==
    /\ pc = "mark_invoice_paid"
    /\ paid_posts' = paid_posts + 1
    /\ \E answer \in {"exception", "ok", "404", "not_ok"} :
          IF answer = "404"
          THEN pc' = "mark_invoice_paid_sync" /\ response' = response
          ELSE pc' = "responded" /\ response' = 200
    /\ UNCHANGED <<config, request, caller, locals, harness, payload, invoice_posts,
                   deliveries, total_invoice_posts>>

\* mark_invoice_paid: the sync endpoint after a 404; whatever comes back
\* (ok, not ok, an exception) the function returns.
MarkPaidSync ==
    /\ pc = "mark_invoice_paid_sync"
    /\ paid_posts' = paid_posts + 1
    /\ response' = 200
    /\ pc' = "responded"
    /\ UNCHANGED <<config, request, caller, locals, harness, payload, invoice_posts,
                   deliveries, total_invoice_posts>>

Init ==
    /\ SHOPIFY_WEBHOOK_SECRET \in BOOLEAN
    /\ INFAKT_API_KEY \in BOOLEAN
    /\ INFAKT_ADJUSTMENT_TAX_SYMBOL = 23
    /\ INFAKT_FLAT_RATE_TAX_SYMBOL = ""
    /\ ALLOW_TEST_ORDERS \in BOOLEAN
    /\ route = "none"
    /\ hmac_header = ""
    /\ order = EmptyOrder
    /\ pc = "idle"
    /\ caller = "create_invoice"
    /\ i = 1
    /\ services = << >>
    /\ calc_total_gross_grosze = 0
    /\ call = 0
    /\ results = << >>
    /\ payload = NoPayload
    /\ response = 0
    /\ invoice_posts = 0
    /\ paid_posts = 0
    /\ deliveries = 0
    /\ total_invoice_posts = 0

Next ==
    \/ Receive \/ orders_create \/ OrdersPaidRejected \/ OrdersPaidAccepted
    \/ CreateInvoiceSkipped \/ CreateInvoiceBuilds
    \/ PrepareServices
    \/ BuildFailed \/ InvoiceNoApiKey \/ InvoicePosted
    \/ MarkPaidAsync \/ MarkPaidSync

Spec == Init /\ [][Next]_vars

----------------------------------------------------------------------------
\* What the claims speak of.

\* The order's total_price in grosze (read where it is a number).
TotalGrosze == money_to_grosze(Get(order.total_price, Num(0)))

\* What the accounting API makes of an entry: net * quantity * (1 + tax_symbol/100),
\* rounded half up.
EntryGross(e) == RoundHalfUp(e.unit_net_price * e.quantity * (100 + e.tax_symbol), 100)

RECURSIVE SumGross(_)
SumGross(entries) ==
    IF entries = << >> THEN 0
    ELSE EntryGross(Head(entries)) + SumGross(Tail(entries))

Last(entries) == entries[Len(entries)]

\* The four fields the examples of the specification give of an entry.
Shown(e) == <<e.name, e.tax_symbol, e.quantity, e.unit_net_price>>

\* C1: after prepare_services returns, the sum over all emitted entries of
\* round_half_up(unit_net_price * quantity * (1 + tax_symbol/100)) differs
\* from the order's total_price in grosze by at most 1.
C1_GrossWithinOne ==
    pc = "return" => Abs(SumGross(services) - TotalGrosze) <= 1

\* C1, on the orders whose VAT rates are whole percentages: there the sum
\* is within 1 of the total.
WholePercent(line) == pick_vat_rate(line.rate, 230) % 10 = 0
C1_WholePercentWithinOne ==
    (/\ pc = "return"
     /\ \A k \in DOMAIN order.line_items : WholePercent(order.line_items[k])
     /\ \A k \in DOMAIN order.shipping_lines : WholePercent(order.shipping_lines[k]))
    => Abs(SumGross(services) - TotalGrosze) <= 1

\* C2: the reconciliation step appends exactly one adjustment entry when the
\* recomputed gross sum and total_price differ by more than 1 grosz and none
\* otherwise; its net is positive for a shortfall and negative for an excess,
\* and it carries the configured adjustment tax symbol.
C2_AdjustmentIffOverOne ==
    [][(pc = "reconcile" /\ pc' = "return") =>
        LET diff == calc_total_gross_grosze - TotalGrosze
        IN  IF Abs(diff) > 1
            THEN /\ Len(services') = Len(services) + 1
                 /\ SubSeq(services', 1, Len(services)) = services
                 /\ Last(services').tax_symbol = INFAKT_ADJUSTMENT_TAX_SYMBOL
                 /\ Last(services').name = INFAKT_ADJUSTMENT_NAME
                 /\ (diff < 0 => Last(services').unit_net_price > 0)
                 /\ (diff > 0 => Last(services').unit_net_price < 0)
            ELSE services' = services]_vars

C2_Witness ==
    /\ pc = "return"
    /\ calc_total_gross_grosze - TotalGrosze = -2
    /\ Len(services) = 2
    /\ Last(services).name = INFAKT_ADJUSTMENT_NAME
    /\ Last(services).unit_net_price > 0

\* C3 as stated: total_price 3 grosze over the computed line sum gives one
\* adjustment entry of quantity 1 with a negative unit_net_price whose
\* grossed-up amount closes the 3-grosze gap.
C3_Original ==
    [][(pc = "reconcile" /\ pc' = "return"
        /\ TotalGrosze - calc_total_gross_grosze = 3) =>
        /\ Len(services') = Len(services) + 1
        /\ Last(services').quantity = 1
        /\ Last(services').unit_net_price < 0
        /\ Abs(EntryGross(Last(services'))) = 3]_vars

\* C3 amended: total_price 3 grosze over the computed line sum gives one
\* adjustment entry of quantity 1 with a positive unit_net_price,
\* round_half_up(3 / (1 + adjustment rate)), whose grossed-up amount is
\* within 1 grosz of the 3-grosze gap.
C3_SurchargeOfThree ==
    [][(pc = "reconcile" /\ pc' = "return"
        /\ TotalGrosze - calc_total_gross_grosze = 3) =>
        /\ Len(services') = Len(services) + 1
        /\ SubSeq(services', 1, Len(services)) = services
        /\ Last(services').quantity = 1
        /\ Last(services').unit_net_price > 0
        /\ Last(services').unit_net_price =
               RoundHalfUp(3 * 100, 100 + INFAKT_ADJUSTMENT_TAX_SYMBOL)
        /\ Abs(EntryGross(Last(services')) - 3) <= 1]_vars

C3_Witness ==
    /\ pc = "return"
    /\ TotalGrosze - calc_total_gross_grosze = 3
    /\ Last(services).name = INFAKT_ADJUSTMENT_NAME
    /\ Last(services).quantity = 1
    /\ Last(services).unit_net_price = 2

\* The order of the example: one Widget line, total_price "24.60".
WidgetOrder ==
    /\ order.line_items = <<Widget>>
    /\ order.shipping_lines = << >>
    /\ order.total_price = Num(24600)

\* C4 as stated: for the Widget order with no other field given,
\* prepare_services returns the one entry Widget / 23 / 2 / 1000.
C4_Original ==
    (pc = "return" /\ WidgetOrder /\ ~order.taxes_included)
    => (Len(services) = 1 /\ Shown(services[1]) = <<"Widget", 23, 2, 1000>>)

\* C4 amended: for the Widget order with taxes_included true,
\* prepare_services returns the one entry Widget / 23 / 2 / 1000 and no
\* adjustment entry.
C4_WidgetTaxesIncluded ==
    (pc = "return" /\ WidgetOrder /\ order.taxes_included)
    => (Len(services) = 1 /\ Shown(services[1]) = <<"Widget", 23, 2, 1000>>)

C4_Witness ==
    /\ pc = "return"
    /\ WidgetOrder
    /\ order.taxes_included
    /\ Len(services) = 1
    /\ services[1].unit_net_price = 1000

\* C6: every product entry comes from a line item with quantity > 0; a line
\* item with quantity <= 0 or no quantity adds no entry and nothing to the
\* recomputed gross sum.
C6_NoEntryForNonPositiveQuantity ==
    [][pc = "items" =>
        /\ \A k \in DOMAIN services' : services'[k].quantity > 0
        /\ (i <= Len(order.line_items)
            /\ ~(order.line_items[i].quantity.kind = "num"
                 /\ order.line_items[i].quantity.v > 0))
           => (/\ services' = services
               /\ calc_total_gross_grosze' = calc_total_gross_grosze
               /\ pc' = "items")]_vars

C6_Witness ==
    /\ pc = "shipping"
    /\ i = 1
    /\ order.line_items = <<Removed, Widget>>
    /\ Len(services) = 1
    /\ services[1].name = "Widget"

\* C7: a shipping line whose price is zero or rounds to <= 0 grosze adds no
\* entry and nothing to the recomputed gross sum.
C7_NoEntryForZeroShipping ==
    [][(/\ pc = "shipping"
        /\ i <= Len(order.shipping_lines)
        /\ order.shipping_lines[i].price.kind = "num"
        /\ order.shipping_lines[i].price.v < 5) =>
        /\ services' = services
        /\ calc_total_gross_grosze' = calc_total_gross_grosze]_vars

C7_Witness ==
    /\ pc = "reconcile"
    /\ order.line_items = << >>
    /\ order.shipping_lines = <<FreeShipping, Crumb>>
    /\ services = << >>
    /\ calc_total_gross_grosze = 0

\* A shipping line that carries a list price and a discounted price.
BothPrices(shipping) ==
    shipping.price.kind = "num" /\ shipping.discounted_price.kind = "num"

\* C8 as stated: for a shipping line with both prices the entry and the
\* free-shipping skip come from the discounted price.
C8_Original ==
    [][(/\ pc = "shipping"
        /\ i <= Len(order.shipping_lines)
        /\ BothPrices(order.shipping_lines[i])) =>
        LET shipping == order.shipping_lines[i]
            discounted == RoundHalfUp(shipping.discounted_price.v, 10)
            rate == pick_vat_rate(shipping.rate, 230)
        IN  IF discounted <= 0
            THEN services' = services
            ELSE /\ Len(services') = Len(services) + 1
                 /\ Last(services').unit_net_price =
                        (IF order.taxes_included
                         THEN RoundHalfUp(discounted * 1000, 1000 + rate)
                         ELSE discounted)]_vars

\* C8 amended: for a shipping line with both prices the entry and the
\* free-shipping skip come from the list price; the discounted price is
\* not read.
C8_ListPriceDecides ==
    [][(/\ pc = "shipping"
        /\ i <= Len(order.shipping_lines)
        /\ BothPrices(order.shipping_lines[i])) =>
        LET shipping == order.shipping_lines[i]
            list == RoundHalfUp(shipping.price.v, 10)
            rate == pick_vat_rate(shipping.rate, 230)
        IN  IF list <= 0
            THEN services' = services
            ELSE /\ Len(services') = Len(services) + 1
                 /\ SubSeq(services', 1, Len(services)) = services
                 /\ Last(services').quantity = 1
                 /\ Last(services').unit_net_price =
                        (IF order.taxes_included
                         THEN RoundHalfUp(list * 1000, 1000 + rate)
                         ELSE list)]_vars

C8_Witness ==
    /\ pc = "reconcile"
    /\ order.line_items = << >>
    /\ order.shipping_lines = <<Courier>>
    /\ ~order.taxes_included
    /\ Len(services) = 1
    /\ services[1].unit_net_price = 1500

\* C9: two calls of prepare_services on one order return identical lists, and
\* no step of a call changes the order or the configuration a later call
\* reads.
C9_SameResultTwice ==
    /\ [](pc = "done" => results[1] = results[2])
    /\ [][order' = order /\ config' = config]_vars

C9_Witness ==
    /\ pc = "done"
    /\ Len(results) = 2
    /\ results[1].ok
    /\ Len(results[1].services) = 3

\* prepare_services reads a field that is no number: the price of a line
\* item it does not skip, the price of a shipping line, or total_price.
ReadsMalformedMoney(o) ==
    \/ \E k \in DOMAIN o.line_items :
          /\ o.line_items[k].quantity.kind = "num"
          /\ o.line_items[k].quantity.v > 0
          /\ o.line_items[k].price.kind = "bad"
    \/ \E k \in DOMAIN o.shipping_lines : o.shipping_lines[k].price.kind = "bad"
    \/ o.total_price.kind = "bad"

\* The order is one create_invoice builds a payload for.
Invoiceable(o) ==
    /\ o.cancelled_at = ""
    /\ Lower(o.financial_status) \in {"paid", "partially_paid"}
    /\ ~(o.test /\ ~ALLOW_TEST_ORDERS)

\* C5: when building the services fails on a malformed field, the delivery
\* ends in an error answer (500) and no POST to the accounting API is made
\* for it, neither the invoice nor mark-paid.
C5_NoPostWhenBuildFails ==
    /\ (route = "orders_paid" /\ Invoiceable(order) /\ ReadsMalformedMoney(order))
       => (/\ invoice_posts = 0
           /\ paid_posts = 0
           /\ payload = NoPayload
           /\ (pc = "responded" => response = 500))
    /\ response = 500 => (invoice_posts = 0 /\ paid_posts = 0)

C5_Witness ==
    /\ pc = "responded"
    /\ response = 500
    /\ order.line_items = <<Removed, Broken>>
    /\ invoice_posts = 0

\* C10: a delivery causes at most one invoice POST, and only when it came to
\* /webhook/orders/paid with a verified signature for an order that is not
\* cancelled, voided or a disallowed test order and is paid or partially_paid;
\* a delivery to /webhook/orders/create or with a bad signature causes no
\* call of the accounting API.
C10_AtMostOneInvoicePost ==
    /\ invoice_posts <= 1
    /\ total_invoice_posts <= deliveries
    /\ invoice_posts = 1 =>
          (/\ route = "orders_paid"
           /\ SHOPIFY_WEBHOOK_SECRET
           /\ hmac_header = "valid"
           /\ order.cancelled_at = ""
           /\ Lower(order.financial_status) # "voided"
           /\ ~(order.test /\ ~ALLOW_TEST_ORDERS)
           /\ Lower(order.financial_status) \in {"paid", "partially_paid"})
    /\ paid_posts > 0 => invoice_posts = 1
    /\ (route = "orders_create" \/ hmac_header # "valid")
          => (invoice_posts = 0 /\ paid_posts = 0)

C10_Witness ==
    /\ pc = "responded"
    /\ deliveries = 2
    /\ total_invoice_posts = 2
    /\ invoice_posts = 1
    /\ paid_posts = 2

====
